---------------------------- MODULE Spec2Model ----------------------------
(***************************************************************************)
(* Pressure drop in a cylindrical pipe by the Hagen-Poiseuille equation    *)
(* (src/src/main.c).                                                       *)
(*                                                                         *)
(* Values of type double are modelled as exact rationals (sign, numerator, *)
(* denominator) plus the IEEE specials NaN and infinity; rounding of the   *)
(* binary64 format is not modelled.  Numerators and denominators exceed    *)
(* 32 bits, so they are held as little-endian sequences of base-1000       *)
(* digits.  The struct fields are held in units of 1e-9 ("nano"), in which *)
(* every literal of main() is a whole number.                              *)
(*                                                                         *)
(* UxHwDoubleUniformDist and UxHwDoubleLognormalDist belong to the UxHw    *)
(* library (uxhw.h), which is not part of the repository.  They are        *)
(* modelled by the set of values a call may yield: the uniform one by a    *)
(* grid over [min, max] that includes both end points, the log-normal one  *)
(* by exp(mu + sigma*z) for whole standard normal deviates z, mu and sigma *)
(* being the location and scale of the logarithm.  Equal bounds and a zero *)
(* scale yield the single point of the degenerate distribution.            *)
(* Parameters outside the domain (min > max, sigma < 0) yield NaN or a     *)
(* value of the mirrored distribution: the choice is left open.            *)
(***************************************************************************)
EXTENDS Integers, Sequences, FiniteSets

VARIABLES pc, fluid, pipe, pipe_length, cross_section, flow_rate, viscosity,
          result, pressure_difference, stdout, exit_code

vars == <<pc, fluid, pipe, pipe_length, cross_section, flow_rate, viscosity,
          result, pressure_difference, stdout, exit_code>>

(***************************************************************************)
(* Bounds of the model.                                                    *)
(***************************************************************************)
\* A uniform draw is one of the Grid + 1 grid points of its interval.
Grid == 2
\* The standard normal deviate of a log-normal draw is in -ZMax .. ZMax.
ZMax == 1
\* Number of terms after the leading 1 in the series of exp.
ExpTerms == 3

(***************************************************************************)
(* Natural numbers of any size: little-endian digit sequences, no leading  *)
(* zero digit, zero being the empty sequence.                              *)
(***************************************************************************)
Base == 1000

RECURSIVE BigOfNat(_)
BigOfNat(n) == IF n = 0 THEN <<>> ELSE <<n % Base>> \o BigOfNat(n \div Base)

RECURSIVE BigAddC(_, _, _)
BigAddC(a, b, c) ==
    IF a = <<>> /\ b = <<>>
    THEN (IF c = 0 THEN <<>> ELSE <<c>>)
    ELSE LET x == IF a = <<>> THEN 0 ELSE Head(a)
             y == IF b = <<>> THEN 0 ELSE Head(b)
             t == x + y + c
         IN  <<t % Base>> \o BigAddC(IF a = <<>> THEN <<>> ELSE Tail(a),
                                     IF b = <<>> THEN <<>> ELSE Tail(b),
                                     t \div Base)

BigAdd(a, b) == BigAddC(a, b, 0)

RECURSIVE BigMulDigitC(_, _, _)
BigMulDigitC(a, d, c) ==
    IF a = <<>>
    THEN BigOfNat(c)
    ELSE LET t == Head(a) * d + c
         IN  <<t % Base>> \o BigMulDigitC(Tail(a), d, t \div Base)

BigMulDigit(a, d) == IF d = 0 THEN <<>> ELSE BigMulDigitC(a, d, 0)

BigShift(a) == IF a = <<>> THEN <<>> ELSE <<0>> \o a

RECURSIVE BigMul(_, _)
BigMul(a, b) ==
    IF a = <<>> \/ b = <<>>
    THEN <<>>
    ELSE BigAdd(BigMulDigit(a, Head(b)), BigShift(BigMul(a, Tail(b))))

RECURSIVE BigLessFrom(_, _, _)
BigLessFrom(a, b, i) ==
    IF i = 0 THEN FALSE
    ELSE IF a[i] # b[i] THEN a[i] < b[i]
    ELSE BigLessFrom(a, b, i - 1)

BigLess(a, b) ==
    IF Len(a) # Len(b) THEN Len(a) < Len(b) ELSE BigLessFrom(a, b, Len(a))

BigOne == <<1>>
\* 10^9: the number of nano units in 1.
Nano == <<0, 0, 0, 1>>

(***************************************************************************)
(* double: a rational s * n / d (s the sign, d > 0), NaN, or an infinity.  *)
(* A variable that has not been assigned yet holds Unset.                  *)
(***************************************************************************)
\* n and d without the low zero digits they share (a common power of Base).
RECURSIVE BigCancel(_, _)
BigCancel(n, d) ==
    IF n # <<>> /\ d # <<>> /\ Head(n) = 0 /\ Head(d) = 0
    THEN BigCancel(Tail(n), Tail(d))
    ELSE <<n, d>>

DNum(s, n, d) ==
    IF n = <<>>
    THEN [k |-> "num", s |-> 0, n |-> <<>>, d |-> BigOne]
    ELSE LET c == BigCancel(n, d) IN [k |-> "num", s |-> s, n |-> c[1], d |-> c[2]]
DNaN == [k |-> "nan", s |-> 0, n |-> <<>>, d |-> <<>>]
DInf(s) == [k |-> "inf", s |-> s, n |-> <<>>, d |-> <<>>]
Unset == [k |-> "unset", s |-> 0, n |-> <<>>, d |-> <<>>]

Sign(i) == IF i < 0 THEN -1 ELSE IF i = 0 THEN 0 ELSE 1
Abs(i) == IF i < 0 THEN -i ELSE i

\* The double of a whole number, and of a whole number of nano units.
DOfInt(i) == DNum(Sign(i), BigOfNat(Abs(i)), BigOne)
DOfNano(i) == DNum(Sign(i), BigOfNat(Abs(i)), Nano)

DMul(x, y) ==
    IF x.k = "nan" \/ y.k = "nan" THEN DNaN
    ELSE IF x.k = "inf" \/ y.k = "inf"
         THEN (IF x.s * y.s = 0 THEN DNaN ELSE DInf(x.s * y.s))
    ELSE DNum(x.s * y.s, BigMul(x.n, y.n), BigMul(x.d, y.d))

DDiv(x, y) ==
    IF x.k = "nan" \/ y.k = "nan" THEN DNaN
    ELSE IF x.k = "inf"
         THEN (IF y.k = "inf" THEN DNaN ELSE DInf(IF y.s < 0 THEN -x.s ELSE x.s))
    ELSE IF y.k = "inf" THEN DNum(0, <<>>, BigOne)
    ELSE IF y.s = 0 THEN (IF x.s = 0 THEN DNaN ELSE DInf(x.s))
    ELSE DNum(x.s * y.s, BigMul(x.n, y.d), BigMul(x.d, y.n))

\* x < y; false when either is NaN, as every comparison with NaN is.
DLess(x, y) ==
    IF x.k = "nan" \/ y.k = "nan" THEN FALSE
    ELSE IF x.k = "inf" THEN x.s < 0 /\ ~(y.k = "inf" /\ y.s < 0)
    ELSE IF y.k = "inf" THEN y.s > 0
    ELSE IF x.s # y.s THEN x.s < y.s
    ELSE IF x.s = 0 THEN FALSE
    ELSE IF x.s > 0 THEN BigLess(BigMul(x.n, y.d), BigMul(y.n, x.d))
    ELSE BigLess(BigMul(y.n, x.d), BigMul(x.n, y.d))

DEq(x, y) ==
    IF x.k = "nan" \/ y.k = "nan" THEN FALSE
    ELSE IF x.k = "inf" \/ y.k = "inf" THEN x.k = y.k /\ x.s = y.s
    ELSE x.s = y.s /\ BigMul(x.n, y.d) = BigMul(y.n, x.d)

DLeq(x, y) == x.k # "nan" /\ y.k # "nan" /\ ~DLess(y, x)

\* M_PI of math.h: the double nearest to pi, 884279719003555 / 2^48.
M_PI == DNum(1, <<555, 3, 719, 279, 884>>, <<656, 710, 976, 474, 281>>)


(***************************************************************************)
(* The UxHw library calls, as the set of values a call may yield.          *)
(***************************************************************************)
\* The k-th of the Grid + 1 grid points of [lo, hi], in nano units.
GridPoint(lo, hi, k) == IF k = Grid THEN hi ELSE lo + ((hi - lo) \div Grid) * k

UxHwDoubleUniformDist(min, max) ==
    IF min <= max
    THEN {DOfNano(GridPoint(min, max, k)) : k \in 0..Grid}
    ELSE {DNaN} \cup {DOfNano(GridPoint(max, min, k)) : k \in 0..Grid}

\* 1 + (y/j)(1 + (y/(j+1))( ... (1 + y/ExpTerms))), y >= 0 in nano units:
\* the series of exp(y) in Horner's form, from its j-th factor on.
RECURSIVE ExpHorner(_, _)
ExpHorner(y, j) ==
    IF j > ExpTerms
    THEN DNum(1, BigOne, BigOne)
    ELSE LET h == ExpHorner(y, j + 1)
             n == BigMul(BigOfNat(y), h.n)
             d == BigMul(BigMulDigit(Nano, j), h.d)
         IN  DNum(1, BigAdd(d, n), d)

\* exp(x), x in nano units; exp(-y) is 1 / exp(y).
Exp(x) ==
    IF x >= 0
    THEN ExpHorner(x, 1)
    ELSE LET e == ExpHorner(-x, 1) IN DNum(1, e.d, e.n)

UxHwDoubleLognormalDist(mu, sigma) ==
    IF sigma >= 0
    THEN {Exp(mu + sigma * z) : z \in -ZMax..ZMax}
    ELSE {DNaN} \cup {Exp(mu - sigma * z) : z \in -ZMax..ZMax}

(***************************************************************************)
(* computePressureDifference, line by line.                                *)
(***************************************************************************)
PipeLengthDist(pp) ==
    UxHwDoubleUniformDist(pp.length - pp.length_tolerance,
                          pp.length + pp.length_tolerance)

\* Variant: the lower bound is written cross_section - cross_section.
CrossSectionDistFromZero(pp) ==
    UxHwDoubleUniformDist(pp.cross_section - pp.cross_section,
                          pp.cross_section + pp.cross_section_tolerance)

CrossSectionDist(pp) ==
    UxHwDoubleUniformDist(pp.cross_section - pp.cross_section_tolerance,
                          pp.cross_section + pp.cross_section_tolerance)

\* Variant: the upper bound adds the mean a second time.
FlowRateDistMeanTwice(fl) ==
    UxHwDoubleUniformDist(fl.mean_flow_rate - fl.flow_rate_stdev,
                          fl.mean_flow_rate + fl.mean_flow_rate)

FlowRateDist(fl) ==
    UxHwDoubleUniformDist(fl.mean_flow_rate - fl.flow_rate_stdev,
                          fl.mean_flow_rate + fl.flow_rate_stdev)

\* Variant: a normal distribution of the same parameters, mu + sigma*z.
UxHwDoubleGaussDist(mu, sigma) ==
    IF sigma >= 0
    THEN {DOfNano(mu + sigma * z) : z \in -ZMax..ZMax}
    ELSE {DNaN} \cup {DOfNano(mu - sigma * z) : z \in -ZMax..ZMax}

ViscosityDistGauss(fl) ==
    UxHwDoubleGaussDist(fl.mean_dynamic_viscosity, fl.dynamic_viscosity_stdev)

ViscosityDist(fl) ==
    UxHwDoubleLognormalDist(fl.mean_dynamic_viscosity,
                            fl.dynamic_viscosity_stdev)

\* Variant: the cross-section is not squared.
PoiseuilleNoSquare(L, Q, mu, A) ==
    DDiv(DMul(DMul(DMul(DMul(DOfInt(8), M_PI), L), Q), mu), A)

\* Variant: flow rate and cross-section change places.
PoiseuilleSwapped(L, Q, mu, A) ==
    DDiv(DMul(DMul(DMul(DMul(DOfInt(8), M_PI), L), A), mu), DMul(Q, Q))

\* 8*M_PI*pipe_length*flow_rate*viscosity/(cross_section*cross_section)
Poiseuille(L, Q, mu, A) ==
    DDiv(DMul(DMul(DMul(DMul(DOfInt(8), M_PI), L), Q), mu), DMul(A, A))

\* Every value computePressureDifference(fl, pp) may return.
computePressureDifference(fl, pp) ==
    {Poiseuille(L, Q, mu, A) : L \in PipeLengthDist(pp), A \in CrossSectionDist(pp),
                               Q \in FlowRateDist(fl), mu \in ViscosityDist(fl)}

(***************************************************************************)
(* The records of main(), in nano units.                                   *)
(***************************************************************************)
water == [mean_dynamic_viscosity |-> 1000000, dynamic_viscosity_stdev |-> 2,
          mean_flow_rate |-> 500000000, flow_rate_stdev |-> 100000]

\* Variant: a cross-section tolerance of 0.01.
pWideTolerance == [length |-> 1000000000, length_tolerance |-> 10000000,
                   cross_section |-> 100000000, cross_section_tolerance |-> 10000000]

p == [length |-> 1000000000, length_tolerance |-> 10000000,
      cross_section |-> 100000000, cross_section_tolerance |-> 1000000]

\* The same records with every uncertainty set to zero.
water0 == [water EXCEPT !.dynamic_viscosity_stdev = 0, !.flow_rate_stdev = 0]
p0 == [p EXCEPT !.length_tolerance = 0, !.cross_section_tolerance = 0]

\* The records computePressureDifference is applied to when it is checked on
\* its own: those of main(), and records with other means and with zero,
\* large and negative uncertainties.
Fluids == [mean_dynamic_viscosity : {1000000},
           dynamic_viscosity_stdev : {-2, 0, 2, 10000000},
           mean_flow_rate : {500000000, 600000000},
           flow_rate_stdev : {0, 100000}]

Pipes == [length : {1000000000},
          length_tolerance : {-10000000, 0, 10000000},
          cross_section : {100000000, 200000000},
          cross_section_tolerance : {0, 1000000, 100000000}]

\* One record varies while the other is that of main(), as it is or with its
\* uncertainties set to zero.
Inputs == {in \in Fluids \X Pipes : in[1] \in {water, water0} \/ in[2] \in {p, p0}}

printf_format == "Pressure difference is given by: %f Pa"

(***************************************************************************)
(* Actions: one per statement.                                             *)
(***************************************************************************)
Locals == <<pipe_length, cross_section, flow_rate, viscosity, result>>
MainState == <<pressure_difference, stdout, exit_code>>

\* main.c:114, the call: the function is entered with &water and &p.
Call ==
    /\ pc = "main_call"
    /\ pc' = "line81"
    /\ UNCHANGED <<fluid, pipe, Locals, MainState>>

DrawPipeLength ==
    /\ pc = "line81"
    /\ pipe_length' \in PipeLengthDist(pipe)
    /\ pc' = "line82"
    /\ UNCHANGED <<fluid, pipe, cross_section, flow_rate, viscosity, result, MainState>>

DrawCrossSection ==
    /\ pc = "line82"
    /\ cross_section' \in CrossSectionDist(pipe)
    /\ pc' = "line86"
    /\ UNCHANGED <<fluid, pipe, pipe_length, flow_rate, viscosity, result, MainState>>

DrawFlowRate ==
    /\ pc = "line86"
    /\ flow_rate' \in FlowRateDist(fluid)
    /\ pc' = "line87"
    /\ UNCHANGED <<fluid, pipe, pipe_length, cross_section, viscosity, result, MainState>>

DrawViscosity ==
    /\ pc = "line87"
    /\ viscosity' \in ViscosityDist(fluid)
    /\ pc' = "line90"
    /\ UNCHANGED <<fluid, pipe, pipe_length, cross_section, flow_rate, result, MainState>>

Return ==
    /\ pc = "line90"
    /\ result' = Poiseuille(pipe_length, flow_rate, viscosity, cross_section)
    /\ pc' = "returned"
    /\ UNCHANGED <<fluid, pipe, pipe_length, cross_section, flow_rate, viscosity, MainState>>

\* main.c:114, the initialisation of pressure_difference with the value returned.
Assign ==
    /\ pc = "returned"
    /\ pressure_difference' = result
    /\ pc' = "main_printf"
    /\ UNCHANGED <<fluid, pipe, Locals, stdout, exit_code>>

\* Variant: the line is written a second time.
PrintfTwice ==
    /\ pc = "main_printf"
    /\ stdout' = Append(Append(stdout, [format |-> printf_format, arg |-> pressure_difference]),
                        [format |-> printf_format, arg |-> pressure_difference])
    /\ pc' = "main_return"
    /\ UNCHANGED <<fluid, pipe, Locals, pressure_difference, exit_code>>

Printf ==
    /\ pc = "main_printf"
    /\ stdout' = Append(stdout, [format |-> printf_format, arg |-> pressure_difference])
    /\ pc' = "main_return"
    /\ UNCHANGED <<fluid, pipe, Locals, pressure_difference, exit_code>>

Exit ==
    /\ pc = "main_return"
    /\ exit_code' = 0
    /\ pc' = "exited"
    /\ UNCHANGED <<fluid, pipe, Locals, pressure_difference, stdout>>

Body == DrawPipeLength \/ DrawCrossSection \/ DrawFlowRate \/ DrawViscosity \/ Return

\* The program: main() with its compiled-in records.
Init ==
    /\ pc = "main_call"
    /\ fluid = water
    /\ pipe = p
    /\ pipe_length = Unset /\ cross_section = Unset
    /\ flow_rate = Unset /\ viscosity = Unset
    /\ result = Unset /\ pressure_difference = Unset
    /\ stdout = <<>>
    /\ exit_code = -1

Next == Call \/ Body \/ Assign \/ Printf \/ Exit

Spec == Init /\ [][Next]_vars

\* computePressureDifference on its own, applied to any of the records.
InitFn ==
    /\ pc = "line81"
    /\ \E in \in Inputs : fluid = in[1] /\ pipe = in[2]
    /\ pipe_length = Unset /\ cross_section = Unset
    /\ flow_rate = Unset /\ viscosity = Unset
    /\ result = Unset /\ pressure_difference = Unset
    /\ stdout = <<>>
    /\ exit_code = -1

NextFn == Body

SpecFn == InitFn /\ [][NextFn]_vars

(***************************************************************************)
(* Properties.                                                             *)
(***************************************************************************)
Rank ==
    CASE pc = "main_call" -> 0
      [] pc = "line81" -> 1
      [] pc = "line82" -> 2
      [] pc = "line86" -> 3
      [] pc = "line87" -> 4
      [] pc = "line90" -> 5
      [] pc = "returned" -> 6
      [] pc = "main_printf" -> 7
      [] pc = "main_return" -> 8
      [] pc = "exited" -> 9

IsNum(x) == x.k = "num"
Zero == DNum(0, <<>>, BigOne)

\* x + y for x, y >= 0.
DAddPos(x, y) == DNum(1, BigAdd(BigMul(x.n, y.d), BigMul(y.n, x.d)), BigMul(x.d, y.d))

\* |x - c| <= eps for x, c >= 0 and eps > 0.
Within(x, c, eps) ==
    /\ IsNum(x) /\ x.s >= 0
    /\ DLeq(x, DAddPos(c, eps))
    /\ DLeq(c, DAddPos(x, eps))

ZeroUncertainty ==
    /\ pipe.length_tolerance = 0 /\ pipe.cross_section_tolerance = 0
    /\ fluid.flow_rate_stdev = 0 /\ fluid.dynamic_viscosity_stdev = 0

NonNegativeInputs ==
    /\ pipe.length >= 0 /\ pipe.length_tolerance >= 0
    /\ pipe.cross_section >= 0 /\ pipe.cross_section_tolerance >= 0
    /\ fluid.mean_flow_rate >= 0 /\ fluid.flow_rate_stdev >= 0
    /\ fluid.mean_dynamic_viscosity >= 0 /\ fluid.dynamic_viscosity_stdev >= 0

\* C1: computePressureDifference draws one value per input, each from the
\* distribution of its own two fields (for the uniform draws: every value of
\* it can be drawn whatever the draws before it were), and returns 8*pi*mu*L*Q/(A*A) of the four drawn values: the value returned
\* times A*A equals 8*pi*mu*L*Q (NaN when a draw is NaN or the quotient is
\* 0/0, an infinity when only A is zero).
C1_ReturnsPoiseuilleOfDraws ==
    /\ pc = "line81" =>
           \A v \in PipeLengthDist(pipe) : ENABLED (DrawPipeLength /\ pipe_length' = v)
    /\ pc = "line82" =>
           \A v \in CrossSectionDist(pipe) : ENABLED (DrawCrossSection /\ cross_section' = v)
    /\ pc = "line86" =>
           \A v \in FlowRateDist(fluid) : ENABLED (DrawFlowRate /\ flow_rate' = v)
    /\ pc = "returned" =>
           LET numerator == DMul(DMul(DMul(DMul(DOfInt(8), M_PI), viscosity), pipe_length),
                                 flow_rate)
               square == DMul(cross_section, cross_section)
           IN  /\ pipe_length \in PipeLengthDist(pipe)
               /\ cross_section \in CrossSectionDist(pipe)
               /\ flow_rate \in FlowRateDist(fluid)
               /\ viscosity \in ViscosityDist(fluid)
               /\ IF ~IsNum(numerator) \/ ~IsNum(square)
                  THEN result = DNaN
                  ELSE IF square.s = 0
                  THEN result = (IF numerator.s = 0 THEN DNaN ELSE DInf(numerator.s))
                  ELSE IsNum(result) /\ DEq(DMul(result, square), numerator)

\* A return with four draws none of which is the mean of its distribution.
C1_Witness ==
    /\ pc = "returned"
    /\ IsNum(result) /\ result.s = 1
    /\ DLess(pipe_length, DOfNano(pipe.length))
    /\ DLess(DOfNano(pipe.cross_section), cross_section)
    /\ DLess(flow_rate, DOfNano(fluid.mean_flow_rate))
    /\ DLess(Exp(fluid.mean_dynamic_viscosity), viscosity)

\* C2: with an uncertainty >= 0, every value drawn for pipe length,
\* cross-section and flow rate is in [mean - uncertainty, mean + uncertainty].
C2_UniformDrawsInInterval ==
    /\ (pipe_length # Unset /\ pipe.length_tolerance >= 0) =>
           /\ DLeq(DOfNano(pipe.length - pipe.length_tolerance), pipe_length)
           /\ DLeq(pipe_length, DOfNano(pipe.length + pipe.length_tolerance))
    /\ (cross_section # Unset /\ pipe.cross_section_tolerance >= 0) =>
           /\ DLeq(DOfNano(pipe.cross_section - pipe.cross_section_tolerance), cross_section)
           /\ DLeq(cross_section, DOfNano(pipe.cross_section + pipe.cross_section_tolerance))
    /\ (flow_rate # Unset /\ fluid.flow_rate_stdev >= 0) =>
           /\ DLeq(DOfNano(fluid.mean_flow_rate - fluid.flow_rate_stdev), flow_rate)
           /\ DLeq(flow_rate, DOfNano(fluid.mean_flow_rate + fluid.flow_rate_stdev))

\* The three draws made, at the lower end, the upper end and the upper end of
\* intervals that are not single points.
C2_Witness ==
    /\ pc = "line87"
    /\ pipe.length_tolerance > 0 /\ pipe.cross_section_tolerance > 0
    /\ fluid.flow_rate_stdev > 0
    /\ pipe_length = DOfNano(pipe.length - pipe.length_tolerance)
    /\ cross_section = DOfNano(pipe.cross_section + pipe.cross_section_tolerance)
    /\ flow_rate = DOfNano(fluid.mean_flow_rate + fluid.flow_rate_stdev)

\* C3: for a mean viscosity >= 0 and a viscosity uncertainty > 0, every
\* drawn viscosity is a number > 0.
C3_ViscosityPositive ==
    (/\ viscosity # Unset
     /\ fluid.mean_dynamic_viscosity >= 0
     /\ fluid.dynamic_viscosity_stdev > 0) => (IsNum(viscosity) /\ DLess(Zero, viscosity))

\* A viscosity drawn below 1, that is with a negative logarithm.
C3_Witness ==
    /\ viscosity # Unset
    /\ fluid.dynamic_viscosity_stdev > 0
    /\ DLess(viscosity, DOfInt(1))

\* 8*pi*mu*L*Q/(A*A) of the four means of the records.
ValueOfMeans(fl, pp) ==
    Poiseuille(DOfNano(pp.length), DOfNano(fl.mean_flow_rate),
               DOfNano(fl.mean_dynamic_viscosity), DOfNano(pp.cross_section))

\* C4: with the four uncertainties zero the value returned is, within 1e-9,
\* 8*pi*mu*L*Q/(A*A) of the four means, the mean viscosity itself being the
\* viscosity; for length 1, cross-section 0.1, flow rate 0.5 and viscosity
\* 0.001 it is 0.12566... (pi/25) within 1e-9.
C4_ZeroUncertaintyGivesValueOfMeans ==
    (pc = "returned" /\ ZeroUncertainty) =>
        /\ viscosity = DOfNano(fluid.mean_dynamic_viscosity)
        /\ Within(result, ValueOfMeans(fluid, pipe), DOfNano(1))
        /\ (fluid = water0 /\ pipe = p0) =>
               Within(result, DDiv(M_PI, DOfInt(25)), DOfNano(1))

\* C5: with the four uncertainties zero and positive means, the value
\* returned is smaller than every value returned for a larger mean flow rate
\* and larger than every value returned for a larger mean cross-section, the
\* other fields being the same; value times squared cross-section is the same
\* for both cross-sections.
C5_MonotoneInFlowRateAndCrossSection ==
    (pc = "returned" /\ ZeroUncertainty
        /\ pipe.length > 0 /\ pipe.cross_section > 0
        /\ fluid.mean_flow_rate > 0 /\ fluid.mean_dynamic_viscosity > 0) =>
        /\ \A f2 \in Fluids :
              (f2.mean_flow_rate > fluid.mean_flow_rate
                  /\ f2 = [fluid EXCEPT !.mean_flow_rate = f2.mean_flow_rate]) =>
              \A r2 \in computePressureDifference(f2, pipe) : DLess(result, r2)
        /\ \A p2 \in Pipes :
              (p2.cross_section > pipe.cross_section
                  /\ p2 = [pipe EXCEPT !.cross_section = p2.cross_section]) =>
              \A r2 \in computePressureDifference(fluid, p2) :
                  /\ DLess(r2, result)
                  /\ DEq(DMul(r2, DMul(DOfNano(p2.cross_section), DOfNano(p2.cross_section))),
                         DMul(result, DMul(DOfNano(pipe.cross_section),
                                           DOfNano(pipe.cross_section))))

\* A return for zero uncertainties and the smaller of the mean flow rates and
\* of the mean cross-sections: both comparisons have a second record.
C5_Witness ==
    /\ pc = "returned" /\ ZeroUncertainty
    /\ \E f2 \in Fluids : /\ f2.mean_flow_rate > fluid.mean_flow_rate
                          /\ f2 = [fluid EXCEPT !.mean_flow_rate = f2.mean_flow_rate]
    /\ \E p2 \in Pipes : /\ p2.cross_section > pipe.cross_section
                         /\ p2 = [pipe EXCEPT !.cross_section = p2.cross_section]

\* What each position of a run has done: the records are those of main(), the
\* draws are made in the order length, cross-section, flow rate, viscosity,
\* then the value is returned and assigned, then the one line is written,
\* then the exit code is set.
C6_Stage ==
    /\ fluid = water /\ pipe = p
    /\ (pipe_length # Unset) <=> (Rank >= 2)
    /\ (cross_section # Unset) <=> (Rank >= 3)
    /\ (flow_rate # Unset) <=> (Rank >= 4)
    /\ (viscosity # Unset) <=> (Rank >= 5)
    /\ (result # Unset) <=> (Rank >= 6)
    /\ (pressure_difference # Unset) <=> (Rank >= 7)
    /\ stdout = IF Rank >= 8
                THEN <<[format |-> "Pressure difference is given by: %f Pa",
                        arg |-> result]>>
                ELSE <<>>
    /\ exit_code = IF Rank = 9 THEN 0 ELSE -1
    \* No position before the exit is stuck: each library call has a value
    \* to yield (the other statements have no condition but the position).
    /\ PipeLengthDist(pipe) # {} /\ CrossSectionDist(pipe) # {}
    /\ FlowRateDist(fluid) # {} /\ ViscosityDist(fluid) # {}

\* C6: a run goes through its positions in the one fixed order, a step at a
\* time and never back (no loop, no retry, no branch); the line is written
\* once, after the evaluation, with the value evaluated; the run ends with
\* exit code 0.
C6_FixedOrderOneLine == [](C6_Stage) /\ [][Rank' = Rank + 1]_vars

\* The end of a run: one line written, exit code 0.
C6_Witness ==
    /\ pc = "exited" /\ exit_code = 0
    /\ Len(stdout) = 1 /\ IsNum(stdout[1].arg)

InvalidParameter ==
    \/ pipe.length_tolerance < 0 \/ pipe.cross_section_tolerance < 0
    \/ fluid.flow_rate_stdev < 0 \/ fluid.dynamic_viscosity_stdev <= 0

\* C7: with a negative uncertainty, or a log-normal scale <= 0, nothing is
\* drawn from the invalid parameters and the formula is not evaluated.
C7_InvalidParameterAborts ==
    /\ pipe.length_tolerance < 0 => pipe_length = Unset
    /\ pipe.cross_section_tolerance < 0 => cross_section = Unset
    /\ fluid.flow_rate_stdev < 0 => flow_rate = Unset
    /\ fluid.dynamic_viscosity_stdev <= 0 => viscosity = Unset
    /\ InvalidParameter => (result = Unset /\ pc # "returned")

\* C9: for non-negative fields with cross_section_tolerance < cross_section
\* no drawn cross-section is zero and the value returned is a number, not
\* the infinity or NaN of a division by zero; for the cross-section and
\* tolerance of main() every drawn cross-section is in [0.099, 0.101].
C9_NoZeroCrossSection ==
    /\ (NonNegativeInputs /\ pipe.cross_section_tolerance < pipe.cross_section) =>
           /\ cross_section # Unset => (IsNum(cross_section) /\ cross_section.s # 0)
           /\ pc = "returned" => IsNum(result)
    /\ (/\ pipe.cross_section = p.cross_section
        /\ pipe.cross_section_tolerance = p.cross_section_tolerance
        /\ cross_section # Unset) =>
           /\ DLeq(DOfNano(99000000), cross_section)
           /\ DLeq(cross_section, DOfNano(101000000))

\* A return for the cross-section and tolerance of main(), the cross-section
\* drawn at the lower end of its interval.
C9_Witness ==
    /\ pc = "returned" /\ NonNegativeInputs
    /\ pipe.cross_section = p.cross_section
    /\ pipe.cross_section_tolerance = p.cross_section_tolerance
    /\ cross_section = DOfNano(99000000)
    /\ IsNum(result)

\* 8*pi*mu*L*Q/(A*A), the factors taken in this order.
Support(mu, L, Q, A) ==
    DDiv(DMul(DMul(DMul(DMul(DOfInt(8), M_PI), mu), DOfNano(L)), DOfNano(Q)),
         DMul(DOfNano(A), DOfNano(A)))

\* C10: the value written by main() is > 0 and, mu being the viscosity
\* drawn, at least 8*pi*mu*0.99*0.4999/(0.101*0.101) and at most
\* 8*pi*mu*1.01*0.5001/(0.099*0.099).
C10_PrintedWithinSupport ==
    stdout # <<>> =>
        LET v == stdout[1].arg
        IN  /\ IsNum(v) /\ DLess(Zero, v)
            /\ DLeq(Support(viscosity, 990000000, 499900000, 101000000), v)
            /\ DLeq(v, Support(viscosity, 1010000000, 500100000, 99000000))

\* A line written with the value at the upper end of the support.
C10_Witness ==
    /\ stdout # <<>>
    /\ DEq(stdout[1].arg, Support(viscosity, 1010000000, 500100000, 99000000))

=============================================================================
